---- MODULE Spec2Model ----
(* A model of src/main.py ("Double Check Em!"): the result formatter           *)
(* format_time, the competitor classifier find_top_competitors and the        *)
(* module-level button handler that fetches a WCIF document and renders the   *)
(* classification.                                                            *)
(*                                                                            *)
(* Python values are represented as follows.                                  *)
(*   dict with optional keys  a function whose DOMAIN is the set of keys      *)
(*                            present; d.get(k, default) is Get(d, k, default)*)
(*   list                     a sequence                                      *)
(*   dict with insertion      a sequence of [key, value] records, in          *)
(*   order (results)          insertion order (DictSet, DictAppend)           *)
(*   an int that may be None  None == <<>>, the int v is <<v>> (GetOpt)       *)
(*   str                      a TLA+ string where it is only compared, a      *)
(*                            sequence of one-character strings where it is   *)
(*                            built digit by digit (format_time)              *)
(*   float('inf')             Inf, an integer above every rank of the model   *)
EXTENDS Integers, Sequences, FiniteSets, TLC

VARIABLES
    wcif,        \* find_top_competitors: the document being classified
    pc,          \* position of the running function / script
    ev,          \* find_top_competitors: number of events whose loop body has run
    results,     \* find_top_competitors: results (a dict, in insertion order)
    borderline,  \* find_top_competitors: borderline (a list)
    event_id,    \* format_time: argument event_id
    best,        \* format_time: argument best (None or <<int>>)
    text,        \* format_time: the returned string
    comp_id,     \* script: content of the text input
    response,    \* script: the HTTP response of the fetch of the last run, if any
    page,        \* script: what the last run rendered below the input box
    calls        \* script: the functions the last run called, in order

vars == <<wcif, pc, ev, results, borderline, event_id, best, text, comp_id, response, page, calls>>

classifierVars == <<wcif, ev, results, borderline>>

formatVars == <<event_id, best, text>>

scriptVars == <<comp_id, response, page, calls>>

----------------------------------------------------------------------------
(* Bounds of the model.                                                     *)

MaxEvents == 2
MaxPersons == 2
MaxPBs == 2
MaxWorld == 101
MaxNational == 31
MaxBest == 7300
NegBest == 2

----------------------------------------------------------------------------
(* Python helpers.                                                          *)

None == <<>>

NoneStr == "<None>"

EmptyDict == <<>>

Inf == 1000000

Get(d, k, default) == IF k \in DOMAIN d THEN d[k] ELSE default

GetOpt(d, k) == IF k \in DOMAIN d THEN <<d[k]>> ELSE None

RECURSIVE Concat(_)
Concat(ss) == IF ss = <<>> THEN <<>> ELSE Head(ss) \o Concat(Tail(ss))

(* results[key] = value: an existing key keeps its place, a new key is added *)
(* at the end.                                                               *)
DictSet(d, key, value) ==
    IF \E i \in DOMAIN d : d[i].key = key
    THEN [i \in DOMAIN d |-> IF d[i].key = key THEN [key |-> key, value |-> value] ELSE d[i]]
    ELSE Append(d, [key |-> key, value |-> value])

DictKeys(d) == [i \in DOMAIN d |-> d[i].key]

DictHas(d, key) == \E i \in DOMAIN d : d[i].key = key

DictGet(d, key) == d[CHOOSE i \in DOMAIN d : d[i].key = key].value

(* results[key].append(entry) *)
DictAppend(d, key, entry) ==
    [i \in DOMAIN d |->
        IF d[i].key = key THEN [key |-> key, value |-> Append(d[i].value, entry)] ELSE d[i]]

----------------------------------------------------------------------------
(* format_time, lines 24-53. Strings are sequences of characters here.      *)

DigitChar(d) == <<"0", "1", "2", "3", "4", "5", "6", "7", "8", "9">>[d + 1]

RECURSIVE Digits(_)
Digits(n) == IF n < 10 THEN <<DigitChar(n)>> ELSE Append(Digits(n \div 10), DigitChar(n % 10))

(* str(n) and f"{n}" of an int *)
Str(n) == IF n < 0 THEN <<"-">> \o Digits(-n) ELSE Digits(n)

(* str(best) and f"{best}" of an int or None *)
StrOpt(b) == IF b = None THEN <<"N", "o", "n", "e">> ELSE Str(b[1])

Pad2_Unpadded(n) == Str(n)

(* f"{n:02d}" *)
Pad2(n) == IF Len(Str(n)) < 2 THEN <<"0">> \o Str(n) ELSE Str(n)

format_time(id, b) ==
    IF id = "333fm" THEN StrOpt(b) \o <<" ", "m", "o", "v", "e", "s">>
    ELSE IF id = "333mbf" THEN StrOpt(b)
    ELSE IF b = None \/ b[1] = 0 THEN <<"-">>
    ELSE
        LET cs == b[1]
            minutes == cs \div 6000
            seconds == (cs % 6000) \div 100
            centis == cs % 100
        IN  IF minutes > 0
            THEN Str(minutes) \o <<":">> \o Pad2(seconds) \o <<".">> \o Pad2(centis)
            ELSE Str(seconds) \o <<".">> \o Pad2(centis)

----------------------------------------------------------------------------
(* find_top_competitors, lines 55-145.                                      *)

SingleWorldTop == 100
SingleNationalTop == 30
AverageWorldTop == 50
AverageNationalTop == 15
BorderlineLow == 51
BorderlineHigh == 100

NoName == "[No Name]"
NoWcaId == "[No WCA ID]"

EventName_Id(event) == event.id

EventName(event) == Get(event, "name", event.id)

Skipped_Unregistered(person) ==
    LET registration == Get(person, "registration", None)
    IN  registration # None /\ Get(registration, "status", NoneStr) # "accepted"

(* line 80-81: not registration or registration.get("status") != "accepted" *)
Skipped(person) ==
    LET registration == Get(person, "registration", None)
    IN  registration = None \/ Get(registration, "status", NoneStr) # "accepted"

PersonLabel(person) == Get(person, "name", NoName)

(* person.get('wcaId') or '[No WCA ID]' *)
PersonWcaId(person) ==
    LET w == Get(person, "wcaId", "") IN IF w = "" THEN NoWcaId ELSE w

(* lines 94-123: the rank_type / ranking_value / qualifier chosen for one    *)
(* personal best, qualifier "" standing for None.                            *)
NoRank == [rank_type |-> NoneStr, ranking_value |-> 0, qualifier |-> ""]

World(wr) == [rank_type |-> "World", ranking_value |-> wr, qualifier |-> "WR"]

National(nr) == [rank_type |-> "National", ranking_value |-> nr, qualifier |-> "NR"]

SingleRank_Both(wr, nr) ==
    IF wr <= SingleWorldTop /\ nr <= SingleNationalTop THEN World(wr)
    ELSE IF nr <= SingleNationalTop THEN National(nr)
    ELSE NoRank

SingleRank_WorldOnly(wr, nr) ==
    IF wr <= SingleWorldTop THEN World(wr) ELSE NoRank

SingleRank(wr, nr) ==
    IF wr <= SingleWorldTop /\ nr <= SingleNationalTop THEN World(wr)
    ELSE IF wr <= SingleWorldTop THEN World(wr)
    ELSE IF nr <= SingleNationalTop THEN National(nr)
    ELSE NoRank

AverageRank(wr, nr) ==
    IF wr <= AverageWorldTop /\ nr <= AverageNationalTop THEN World(wr)
    ELSE IF wr <= AverageWorldTop THEN World(wr)
    ELSE IF nr <= AverageNationalTop THEN National(nr)
    ELSE NoRank

IsBorderline_Exclusive(wr, nr) ==
    /\ AverageRank(wr, nr).qualifier = ""
    /\ BorderlineLow <= wr
    /\ wr < BorderlineHigh

(* line 125: reached only when the three branches above it were not taken *)
IsBorderline(wr, nr) ==
    /\ AverageRank(wr, nr).qualifier = ""
    /\ BorderlineLow <= wr
    /\ wr <= BorderlineHigh

IsSentinel_NoNational(pb) ==
    \/ Get(pb, "best", 0) = 0
    \/ Get(pb, "worldRanking", Inf) = 0

(* line 92 *)
IsSentinel(pb) ==
    \/ Get(pb, "best", 0) = 0
    \/ Get(pb, "worldRanking", Inf) = 0
    \/ Get(pb, "nationalRanking", Inf) = 0

BorderlineEntry(event, person, pb, wr) ==
    [event_id |-> event.id, event_name |-> EventName(event),
     name |-> PersonLabel(person), wcaId |-> PersonWcaId(person),
     ranking_value |-> wr, best |-> GetOpt(pb, "best")]

TopEntry(event, person, pb, rank) ==
    [event_id |-> event.id, name |-> PersonLabel(person), wcaId |-> PersonWcaId(person),
     type |-> Get(pb, "type", NoneStr), ranking_value |-> rank.ranking_value,
     rank_type |-> rank.rank_type, qualifier |-> rank.qualifier,
     best |-> GetOpt(pb, "best")]

(* lines 86-144: the body of the innermost loop for one personal best; st is *)
(* [results, borderline].                                                    *)
PbBody(st, event, person, pb) ==
    IF Get(pb, "eventId", NoneStr) # event.id THEN st
    ELSE IF IsSentinel(pb) THEN st
    ELSE
        LET pb_type == Get(pb, "type", NoneStr)
            wr == Get(pb, "worldRanking", Inf)
            nr == Get(pb, "nationalRanking", Inf)
            rank == IF pb_type = "single" THEN SingleRank(wr, nr)
                    ELSE IF pb_type = "average" THEN AverageRank(wr, nr)
                    ELSE NoRank
            bl == IF pb_type = "average" /\ IsBorderline(wr, nr)
                  THEN Append(st.borderline, BorderlineEntry(event, person, pb, wr))
                  ELSE st.borderline
            res == IF rank.qualifier # ""
                   THEN DictAppend(st.results, EventName(event), TopEntry(event, person, pb, rank))
                   ELSE st.results
        IN  [results |-> res, borderline |-> bl]

RECURSIVE PbLoop(_, _, _, _)
PbLoop(st, event, person, pbs) ==
    IF pbs = <<>> THEN st
    ELSE PbLoop(PbBody(st, event, person, Head(pbs)), event, person, Tail(pbs))

(* lines 79-85 *)
PersonBody(st, event, person) ==
    IF Skipped(person) THEN st
    ELSE PbLoop(st, event, person, Get(person, "personalBests", <<>>))

RECURSIVE PersonLoop(_, _, _)
PersonLoop(st, event, persons) ==
    IF persons = <<>> THEN st
    ELSE PersonLoop(PersonBody(st, event, Head(persons)), event, Tail(persons))

(* lines 76-144: the body of the outer loop for one event *)
EventBody(st, doc, event) ==
    PersonLoop([results |-> DictSet(st.results, EventName(event), <<>>),
                borderline |-> st.borderline],
               event, doc.persons)

RECURSIVE EventLoop(_, _, _)
EventLoop(st, doc, events) ==
    IF events = <<>> THEN st
    ELSE EventLoop(EventBody(st, doc, Head(events)), doc, Tail(events))

(* lines 73-145: the whole function *)
find_top_competitors(doc) ==
    EventLoop([results |-> <<>>, borderline |-> <<>>], doc, doc.events)

----------------------------------------------------------------------------
(* get_wcif (lines 4-22) and the script's button handler (lines 152-188).   *)
(* A raised exception is the record [ok |-> FALSE, error |-> str(e)].       *)

RECURSIVE Join(_)
Join(cs) == IF cs = <<>> THEN "" ELSE Head(cs) \o Join(Tail(cs))

RECURSIVE JoinLines(_)
JoinLines(lines) ==
    IF lines = <<>> THEN ""
    ELSE IF Len(lines) = 1 THEN lines[1]
    ELSE lines[1] \o "\n" \o JoinLines(Tail(lines))

get_wcif_AnySuccess(competition_id, resp) ==
    IF "exception" \in DOMAIN resp THEN [ok |-> FALSE, error |-> resp.exception]
    ELSE IF resp.status_code < 300 THEN [ok |-> TRUE, value |-> resp.json]
    ELSE [ok |-> FALSE,
          error |-> "Failed to fetch WCIF for competition ID " \o competition_id \o ": "
                    \o Join(Str(resp.status_code)) \o " " \o resp.text]

(* resp is what requests.get(url) gave: a response, or an exception raised  *)
(* by the request itself.                                                    *)
get_wcif(competition_id, resp) ==
    IF "exception" \in DOMAIN resp THEN [ok |-> FALSE, error |-> resp.exception]
    ELSE IF resp.status_code = 200 THEN [ok |-> TRUE, value |-> resp.json]
    ELSE [ok |-> FALSE,
          error |-> "Failed to fetch WCIF for competition ID " \o competition_id \o ": "
                    \o Join(Str(resp.status_code)) \o " " \o resp.text]

(* line 159 on a document that lacks a required key: the KeyError of lines  *)
(* 75 and 79                                                                 *)
Classified(doc) ==
    IF "events" \notin DOMAIN doc THEN [ok |-> FALSE, error |-> "'events'"]
    ELSE IF doc.events # <<>> /\ "persons" \notin DOMAIN doc
    THEN [ok |-> FALSE, error |-> "'persons'"]
    ELSE [ok |-> TRUE, value |-> find_top_competitors(doc)]

(* lines 165-171 *)
CompetitorLine(c) ==
    "- " \o c.name \o " (" \o c.wcaId \o "), "
    \o (IF c.type = "single" THEN "Single" ELSE "Average") \o ": "
    \o c.qualifier \o " " \o Join(Str(c.ranking_value))
    \o ", Time: " \o Join(format_time(c.event_id, c.best))

(* lines 177-181 *)
BorderlineLine(c) ==
    "- " \o c.name \o " (" \o c.wcaId \o "), " \o c.event_name \o ": "
    \o "WR " \o Join(Str(c.ranking_value))
    \o ", Time: " \o Join(format_time(c.event_id, c.best))

(* lines 162-172 *)
RECURSIVE EventLines(_)
EventLines(res) ==
    IF res = <<>> THEN <<>>
    ELSE (IF Head(res).value # <<>>
          THEN <<"**" \o Head(res).key \o ":**">>
               \o [k \in DOMAIN Head(res).value |-> CompetitorLine(Head(res).value[k])]
               \o <<"">>
          ELSE <<>>)
         \o EventLines(Tail(res))

(* lines 161-181 *)
Output(res, bl) ==
    <<"**Competitors that need double checks:**\n">>
    \o EventLines(res)
    \o (IF bl # <<>>
        THEN <<"**Borderline (51-100 World Ranking for Average):**">>
             \o [k \in DOMAIN bl |-> BorderlineLine(bl[k])]
        ELSE <<>>)

(* the calls of format_time of lines 167 and 177 *)
FormatCalls(res, bl) ==
    [k \in 1..(Len(Concat([i \in DOMAIN res |-> res[i].value])) + Len(bl)) |-> "format_time"]

Element(kind, body) == [kind |-> kind, body |-> body]

(* lines 154-188 with the button pressed: what the run leaves behind *)
Handler(id, resp) ==
    LET unset == [wcif |-> EmptyDict, results |-> <<>>, borderline |-> <<>>] IN
    IF id = ""
    THEN unset @@ [response |-> EmptyDict, calls |-> <<>>,
                   page |-> <<Element("error", "Please enter a valid competition ID.")>>]
    ELSE
        LET fetched == get_wcif(id, resp) IN
        IF ~fetched.ok
        THEN unset @@ [response |-> resp, calls |-> <<"get_wcif">>,
                       page |-> <<Element("error", "Error fetching WCIF: " \o fetched.error)>>]
        ELSE
            LET got == Classified(fetched.value) IN
            IF ~got.ok
            THEN [wcif |-> fetched.value, results |-> <<>>, borderline |-> <<>>,
                  response |-> resp, calls |-> <<"get_wcif", "find_top_competitors">>,
                  page |-> <<Element("write", "WCIF fetched successfully!"),
                             Element("error", "Error fetching WCIF: " \o got.error)>>]
            ELSE [wcif |-> fetched.value,
                  results |-> got.value.results, borderline |-> got.value.borderline,
                  response |-> resp,
                  calls |-> <<"get_wcif", "find_top_competitors">>
                            \o FormatCalls(got.value.results, got.value.borderline),
                  page |-> <<Element("write", "WCIF fetched successfully!"),
                             Element("markdown",
                                     JoinLines(Output(got.value.results, got.value.borderline)))>>]

----------------------------------------------------------------------------
(* The documents the classifier is run on.                                  *)

(* the dicts that hold key k with a value of V, or do not hold k *)
Optional(k, V) == {EmptyDict} \cup {k :> v : v \in V}

SeqsUpTo(S, n) == UNION {[1..k -> S] : k \in 0..n}

Accepted == [status |-> "accepted"]

(* One event, one accepted person, one personal best for that event: every  *)
(* result kind, every world and national ranking up to the bounds (or none), *)
(* and a raw result that is missing, 0 or a time.                           *)
RulePBs ==
    {("eventId" :> "333") @@ ("type" :> t) @@ w @@ n @@ b :
        t \in {"single", "average", "mean"},
        w \in Optional("worldRanking", 0..MaxWorld),
        n \in Optional("nationalRanking", 0..MaxNational),
        b \in Optional("best", {0, 950})}

RuleDocs ==
    {[events |-> <<[id |-> "333"]>>,
      persons |-> <<[name |-> "P1", registration |-> Accepted, personalBests |-> <<pb>>]>>] :
        pb \in RulePBs}

(* Several events, persons and personal bests. Events may repeat an          *)
(* identifier or a display name. Person i is named after i and personal best *)
(* j carries the raw result 900 + j, so that an output entry tells which     *)
(* person and which personal best it was built from.                         *)
EventCatalog ==
    {[id |-> "333"], [id |-> "333", name |-> "Cube"], [id |-> "222", name |-> "Cube"]}

PBCatalog ==
    {[eventId |-> "333", type |-> "single", worldRanking |-> 7, nationalRanking |-> 3],
     [eventId |-> "333", type |-> "average", worldRanking |-> 60, nationalRanking |-> 20],
     [eventId |-> "222", type |-> "average", worldRanking |-> 120, nationalRanking |-> 9],
     [eventId |-> "222", type |-> "average", worldRanking |-> 0, nationalRanking |-> 9]}

Registrations == Optional("registration", {Accepted})

(* every shape of a registration: none, an empty one, one with no status,   *)
(* and the statuses accepted, pending and deleted                           *)
RegistrationShapes ==
    Optional("registration",
             {EmptyDict, [guests |-> 0], Accepted, [status |-> "pending"], [status |-> "deleted"]})

BestOf(j) == 900 + j

PersonOf(i, reg, kinds) ==
    ("name" :> ("P" \o ToString(i)))
    @@ (IF i % 3 = 1 THEN EmptyDict
        ELSE "wcaId" :> (IF i % 3 = 2 THEN "2012ABCD0" \o ToString(i) ELSE ""))
    @@ reg
    @@ (IF kinds = <<>> /\ i % 2 = 0 THEN EmptyDict
        ELSE "personalBests" :> [j \in DOMAIN kinds |-> kinds[j] @@ ("best" :> BestOf(j))])

OrderDocs ==
    {[events |-> es, persons |-> [i \in DOMAIN regs |-> PersonOf(i, regs[i], kinds)]] :
        es \in SeqsUpTo(EventCatalog, MaxEvents),
        regs \in SeqsUpTo(Registrations, MaxPersons),
        kinds \in SeqsUpTo(PBCatalog, MaxPBs)}

(* One event and one person with one personal best, for every shape of the *)
(* person's registration.                                                   *)
StatusDocs ==
    {[events |-> <<e>>, persons |-> <<PersonOf(1, reg, <<kind>>)>>] :
        e \in EventCatalog, reg \in RegistrationShapes, kind \in PBCatalog}

Docs == RuleDocs \cup OrderDocs \cup StatusDocs

----------------------------------------------------------------------------
(* The classifier run step by step: one step per iteration of the outer     *)
(* loop (line 75), then the return (line 145).                              *)

NoFormat == event_id = "" /\ best = None /\ text = <<>>

NoScript == comp_id = "" /\ response = EmptyDict /\ page = <<>> /\ calls = <<>>

Init ==
    /\ wcif \in Docs
    /\ pc = "loop"
    /\ ev = 0
    /\ results = <<>>
    /\ borderline = <<>>
    /\ NoFormat
    /\ NoScript

EventIteration ==
    /\ pc = "loop"
    /\ ev < Len(wcif.events)
    /\ LET st == EventBody([results |-> results, borderline |-> borderline],
                           wcif, wcif.events[ev + 1])
       IN  /\ results' = st.results
           /\ borderline' = st.borderline
    /\ ev' = ev + 1
    /\ UNCHANGED <<wcif, pc, formatVars, scriptVars>>

Return ==
    /\ pc = "loop"
    /\ ev = Len(wcif.events)
    /\ pc' = "returned"
    /\ UNCHANGED <<classifierVars, formatVars, scriptVars>>

Next == EventIteration \/ Return

Spec == Init /\ [][Next]_vars

----------------------------------------------------------------------------
(* format_time called on every event identifier and raw value of the bounds. *)

EventIds == {"333fm", "333mbf", "333", "222"}

LongTimes == {59999, 60000, 61234, 359999}

RawValues == {None} \cup {<<v>> : v \in (-NegBest..MaxBest) \cup LongTimes}

NoClassifier ==
    /\ wcif = [events |-> <<>>, persons |-> <<>>]
    /\ ev = 0 /\ results = <<>> /\ borderline = <<>>

InitFormat ==
    /\ event_id \in EventIds
    /\ best \in RawValues
    /\ text = <<>>
    /\ pc = "call"
    /\ NoClassifier
    /\ NoScript

Format ==
    /\ pc = "call"
    /\ text' = format_time(event_id, best)
    /\ pc' = "formatted"
    /\ UNCHANGED <<event_id, best, classifierVars, scriptVars>>

NextFormat == Format

SpecFormat == InitFormat /\ [][NextFormat]_vars

----------------------------------------------------------------------------
(* The script: every interaction runs it again from the top. Typing an      *)
(* identifier runs it with the button not pressed; pressing the button runs *)
(* the handler, the remote end answering with any response of Responses.    *)

CompIds == {"", "Comp2024", "Open2025"}

FetchedDocs ==
    {[events |-> es, persons |-> <<PersonOf(2, "registration" :> Accepted, kinds)>>] :
        es \in SeqsUpTo(EventCatalog, 1),
        kinds \in SeqsUpTo(PBCatalog, MaxPBs)}
    \cup {[persons |-> <<>>]}

ErrorDoc == [error |-> "Competition not found"]

Responses ==
    {[status_code |-> 200, text |-> "{...}", json |-> d] : d \in FetchedDocs}
    \cup {[status_code |-> 201, text |-> "{...}", json |-> d] :
            d \in {[events |-> <<[id |-> "333"]>>, persons |-> <<>>]}}
    \cup {[status_code |-> 404, text |-> "{\"error\":\"Competition not found\"}", json |-> ErrorDoc],
          [status_code |-> 500, text |-> "", json |-> ErrorDoc],
          [exception |-> "ConnectionError"]}

InitScript ==
    /\ comp_id = ""
    /\ response = EmptyDict
    /\ page = <<>>
    /\ calls = <<>>
    /\ wcif = EmptyDict
    /\ results = <<>>
    /\ borderline = <<>>
    /\ ev = 0
    /\ pc = "script"
    /\ NoFormat

EnterText ==
    /\ \E id \in CompIds : comp_id' = id
    /\ response' = EmptyDict
    /\ page' = <<>>
    /\ calls' = <<>>
    /\ wcif' = EmptyDict
    /\ results' = <<>>
    /\ borderline' = <<>>
    /\ UNCHANGED <<pc, ev, formatVars>>

PressFetch ==
    /\ \E resp \in Responses :
        LET run == Handler(comp_id, resp) IN
        /\ response' = run.response
        /\ page' = run.page
        /\ calls' = run.calls
        /\ wcif' = run.wcif
        /\ results' = run.results
        /\ borderline' = run.borderline
    /\ UNCHANGED <<comp_id, pc, ev, formatVars>>

NextScript == EnterText \/ PressFetch

SpecScript == InitScript /\ [][NextScript]_vars

----------------------------------------------------------------------------
(* Vocabulary of the properties of the classifier. In every document of     *)
(* Docs a person's name and a personal best's raw result identify the       *)
(* personal best, so BuiltFrom tells which record an output entry is from.  *)

Persons == wcif.persons

Events == wcif.events

PBsOf(i) == IF "personalBests" \in DOMAIN Persons[i] THEN Persons[i].personalBests ELSE <<>>

PBIndex == UNION {{<<i, j>> : j \in DOMAIN PBsOf(i)} : i \in DOMAIN Persons}

IsAccepted(i) ==
    /\ "registration" \in DOMAIN Persons[i]
    /\ "status" \in DOMAIN Persons[i].registration
    /\ Persons[i].registration.status = "accepted"

Has(pb, k, V) == k \in DOMAIN pb /\ pb[k] \in V

Lacks(pb, k) == k \notin DOMAIN pb

DisplayName(k) == IF "name" \in DOMAIN Events[k] THEN Events[k].name ELSE Events[k].id

AllTop == Concat([k \in DOMAIN results |-> results[k].value])

BuiltFrom(e, i, j) ==
    /\ e.name = Persons[i].name
    /\ e.best = (IF "best" \in DOMAIN PBsOf(i)[j] THEN <<PBsOf(i)[j].best>> ELSE <<>>)

TopFrom(i, j) == {k \in DOMAIN AllTop : BuiltFrom(AllTop[k], i, j)}

BorderFrom(i, j) == {k \in DOMAIN borderline : BuiltFrom(borderline[k], i, j)}

(* the list of the event whose loop body has just run *)
JustRun == ev >= 1 /\ pc = "loop"

CurrentList == DictGet(results, DisplayName(ev))

Positive == 1..Inf

(* C1: a personal best whose raw result, world ranking or national ranking  *)
(* is 0 has no entry in any qualifying list nor in the borderline list.     *)
C1_SentinelNeverClassified ==
    \A ij \in PBIndex :
        LET pb == PBsOf(ij[1])[ij[2]] IN
        (Has(pb, "best", {0}) \/ Has(pb, "worldRanking", {0}) \/ Has(pb, "nationalRanking", {0}))
            => TopFrom(ij[1], ij[2]) = {} /\ BorderFrom(ij[1], ij[2]) = {}

(* a single that would be World/"WR" but for its national ranking 0, after  *)
(* its event was processed                                                  *)
C1_Witness ==
    /\ pc = "returned"
    /\ \E ij \in PBIndex :
        LET pb == PBsOf(ij[1])[ij[2]] IN
        /\ IsAccepted(ij[1])
        /\ pb.type = "single"
        /\ \E k \in DOMAIN Events : Events[k].id = pb.eventId
        /\ Has(pb, "worldRanking", 1..100)
        /\ Has(pb, "nationalRanking", {0})
        /\ Has(pb, "best", Positive)

Processed(pb) == {k \in 1..ev : Events[k].id = pb.eventId}

(* an "average" of an accepted person with non-zero raw result and world    *)
(* ranking in 51..100                                                       *)
MidAverage(i, pb) ==
    /\ IsAccepted(i)
    /\ pb.type = "average"
    /\ Has(pb, "best", Positive)
    /\ Has(pb, "worldRanking", 51..100)

C5_IdentifierIsKey ==
    pc = "returned" => \A k \in DOMAIN Events : DictHas(results, Events[k].id)

(* C5, amended: at the return every event's display name (its name, or its  *)
(* identifier when it has no name) is a key of results, even when its list  *)
(* is empty.                                                                *)
C5_DisplayNameIsKey ==
    pc = "returned" => \A k \in DOMAIN Events : DictHas(results, DisplayName(k))

(* an event with no name and an empty list at the return *)
C5_Witness ==
    /\ pc = "returned"
    /\ \E k \in DOMAIN Events :
        /\ "name" \notin DOMAIN Events[k]
        /\ DictHas(results, Events[k].id)
        /\ DictGet(results, Events[k].id) = <<>>

(* C6: a personal best has at most one entry in total across the qualifying *)
(* lists and the borderline list.                                           *)
C6_AtMostOneEntry ==
    \A ij \in PBIndex :
        Cardinality(TopFrom(ij[1], ij[2])) + Cardinality(BorderFrom(ij[1], ij[2])) <= 1

(* the place of an entry in the input: its person and its personal best *)
PersonIdx(e) == CHOOSE i \in DOMAIN Persons : Persons[i].name = e.name

PBIdx(e) == CHOOSE j \in DOMAIN PBsOf(PersonIdx(e)) : BuiltFrom(e, PersonIdx(e), j)

InInputOrder(list) ==
    \A a, b \in DOMAIN list :
        a < b =>
            \/ PersonIdx(list[a]) < PersonIdx(list[b])
            \/ PersonIdx(list[a]) = PersonIdx(list[b]) /\ PBIdx(list[a]) < PBIdx(list[b])

(* C7, of one iteration of the outer loop: the key of the event is added    *)
(* after the keys of the earlier events (or is already there), the event's  *)
(* list is in person and personal-best order, the borderline list grows at  *)
(* its end by entries of this event in that order, and the list of no       *)
(* earlier event changes.                                                   *)
C7_Iteration ==
    ev' = ev + 1 =>
        LET name == DisplayName(ev') IN
        /\ DictKeys(results') =
                IF DictHas(results, name) THEN DictKeys(results)
                ELSE Append(DictKeys(results), name)
        /\ InInputOrder(DictGet(results', name))
        /\ Len(borderline') >= Len(borderline)
        /\ SubSeq(borderline', 1, Len(borderline)) = borderline
        /\ LET new == SubSeq(borderline', Len(borderline) + 1, Len(borderline'))
           IN  /\ InInputOrder(new)
               /\ \A a \in DOMAIN new :
                    new[a].event_id = Events[ev'].id /\ new[a].event_name = name
        /\ \A k \in 1..ev :
                DictGet(results', DisplayName(k)) = DictGet(results, DisplayName(k))

C7_OutputOrderFollowsInput == [][C7_Iteration]_vars

(* C8: every entry of a qualifying list or of the borderline list is built  *)
(* from a person whose registration is present with status "accepted".      *)
C8_OnlyAccepted ==
    /\ \A k \in DOMAIN AllTop :
        \E i \in DOMAIN Persons : Persons[i].name = AllTop[k].name /\ IsAccepted(i)
    /\ \A k \in DOMAIN borderline :
        \E i \in DOMAIN Persons : Persons[i].name = borderline[k].name /\ IsAccepted(i)

(* at the return an accepted person has an entry and a person without       *)
(* registration, with the same personal bests, has none                     *)
C8_Witness ==
    /\ pc = "returned"
    /\ \E i1, i2 \in DOMAIN Persons :
        /\ IsAccepted(i1)
        /\ "registration" \notin DOMAIN Persons[i2]
        /\ [j \in DOMAIN PBsOf(i1) |-> PBsOf(i1)[j].worldRanking]
            = [j \in DOMAIN PBsOf(i2) |-> PBsOf(i2)[j].worldRanking]
        /\ \E j \in DOMAIN PBsOf(i1) : TopFrom(i1, j) # {} /\ TopFrom(i2, j) = {}

----------------------------------------------------------------------------
(* Properties of format_time: the returned text is read back.               *)

DigitSet == {"0", "1", "2", "3", "4", "5", "6", "7", "8", "9"}

DigitValue(c) == CHOOSE d \in 0..9 : DigitChar(d) = c

(* cs is the decimal numeral of n: digits only, no leading zero *)
RECURSIVE Reads(_, _)
Reads(cs, n) ==
    /\ cs # <<>>
    /\ cs[Len(cs)] \in DigitSet
    /\ DigitValue(cs[Len(cs)]) = n % 10
    /\ IF Len(cs) = 1 THEN n \in 0..9
       ELSE n >= 10 /\ Reads(SubSeq(cs, 1, Len(cs) - 1), n \div 10)

(* cs is the text of the raw value b *)
ReadsRaw(cs, b) ==
    IF b = None THEN cs = <<"N", "o", "n", "e">>
    ELSE IF b[1] < 0 THEN cs # <<>> /\ cs[1] = "-" /\ Reads(Tail(cs), -b[1])
    ELSE Reads(cs, b[1])

(* cs is two digits that read n *)
ReadsTwo(cs, n) ==
    /\ Len(cs) = 2
    /\ cs[1] \in DigitSet /\ cs[2] \in DigitSet
    /\ 10 * DigitValue(cs[1]) + DigitValue(cs[2]) = n

(* C9: the text format_time returns is "<raw> moves" for "333fm", the raw   *)
(* value's text for "333mbf", "-" for a missing or zero raw value, and      *)
(* otherwise "<minutes>:<ss>.<hh>" when minutes > 0 and "<seconds>.<hh>"    *)
(* when not, for the one split v = minutes*6000 + seconds*100 + hundredths  *)
(* with 0 <= seconds < 60 and 0 <= hundredths < 100; 7265 gives "1:12.65"   *)
(* and 950 gives "9.50".                                                    *)
C9_FormatTime ==
    pc = "formatted" =>
        LET n == Len(text) IN
        /\ event_id = "333fm" =>
                /\ n > 6
                /\ SubSeq(text, n - 5, n) = <<" ", "m", "o", "v", "e", "s">>
                /\ ReadsRaw(SubSeq(text, 1, n - 6), best)
        /\ event_id = "333mbf" => ReadsRaw(text, best)
        /\ (event_id \notin {"333fm", "333mbf"} /\ (best = None \/ best = <<0>>)) =>
                text = <<"-">>
        /\ (event_id \notin {"333fm", "333mbf"} /\ best # None /\ best # <<0>>) =>
                \E m \in -1..MaxBest \div 6000 + 60, s \in 0..59 :
                    LET h == best[1] - m * 6000 - s * 100 IN
                    /\ h \in 0..99
                    /\ n >= 4
                    /\ ReadsTwo(SubSeq(text, n - 1, n), h)
                    /\ text[n - 2] = "."
                    /\ IF m > 0
                       THEN /\ n >= 7
                            /\ ReadsTwo(SubSeq(text, n - 4, n - 3), s)
                            /\ text[n - 5] = ":"
                            /\ Reads(SubSeq(text, 1, n - 6), m)
                       ELSE Reads(SubSeq(text, 1, n - 3), s)
        /\ (event_id = "333" /\ best = <<7265>>) => text = <<"1", ":", "1", "2", ".", "6", "5">>
        /\ (event_id = "333" /\ best = <<950>>) => text = <<"9", ".", "5", "0">>

(* a time of more than a minute whose seconds and hundredths need padding *)
C9_Witness ==
    /\ pc = "formatted"
    /\ event_id = "333"
    /\ best = <<6305>>
    /\ text = <<"1", ":", "0", "3", ".", "0", "5">>

----------------------------------------------------------------------------
(* Property of the button handler.                                          *)

FetchFailed == "status_code" \in DOMAIN response /\ response.status_code # 200

Rendered(kind) == \E k \in DOMAIN page : page[k].kind = kind

(* C10: after a run whose fetch got a response with a status other than 200 *)
(* the classifier was not called, no success message and no classification  *)
(* output is on the page, and the page holds exactly one error message,     *)
(* which carries the status code and the response body; classification      *)
(* output is on the page only after a fetch that got status 200.            *)
C10_FetchFailureAborts ==
    /\ FetchFailed =>
        /\ calls = <<"get_wcif">>
        /\ results = <<>> /\ borderline = <<>>
        /\ ~Rendered("write") /\ ~Rendered("markdown")
        /\ Len(page) = 1
        /\ page[1].kind = "error"
        /\ page[1].body = "Error fetching WCIF: Failed to fetch WCIF for competition ID "
                          \o comp_id \o ": " \o ToString(response.status_code)
                          \o " " \o response.text
    /\ Rendered("markdown") =>
        "status_code" \in DOMAIN response /\ response.status_code = 200

(* a run that got status 201 with a well-formed document shows the error *)
C10_Witness ==
    /\ FetchFailed
    /\ response.status_code = 201
    /\ comp_id = "Comp2024"
    /\ Rendered("error")
====
